---- MODULE Spec2Model ----
(***************************************************************************)
(* Model of DepartmentAgentService (src/services/department-agent.service.ts) *)
(* the in-memory agent registry, the two department-service listeners and  *)
(* handleCitizenNeed with its suspension points.                            *)
(*                                                                         *)
(* Numbers: performance scalars and urgencies are held in tenths (7 is     *)
(* 0.7), the score weights 0.4/0.4/0.2 as 4/4/2, so a score is held in     *)
(* hundredths and every comparison of the code keeps its direction.        *)
(* An agent object is modelled by its value: the service writes only the   *)
(* currentTask field, and it writes it on the object the registry holds.   *)
(***************************************************************************)
EXTENDS Integers, Sequences, FiniteSets

MaxAgents == 2
MaxCalls == 2
MaxUpdateLen == 2

AgentIds == 1..MaxAgents
Calls == 1..MaxCalls

\* currentTask absent (undefined)
NoTask == [type |-> "none", description |-> "", priority |-> "none"]
\* a task an agent already carries when the department service delivers it
ExternalTask == [type |-> "external", description |-> "ext", priority |-> "low"]

\* performance records delivered by the department service (tenths):
\* PerfA and PerfB score the same, PerfC scores less with the best efficiency
PerfA == [responseTime |-> 10, resolutionRate |-> 5, efficiency |-> 0, citizenSatisfaction |-> 3]
PerfB == [responseTime |-> 5, resolutionRate |-> 10, efficiency |-> 0, citizenSatisfaction |-> 6]
PerfC == [responseTime |-> 0, resolutionRate |-> 0, efficiency |-> 10, citizenSatisfaction |-> 9]

\* DepartmentAgent objects the department service may deliver
Agents(availabilities, tasks, performances) ==
    [id : AgentIds, availability : availabilities, currentTask : tasks,
     performance : performances]

\* CitizenNeed
NeedsWith(descriptions, urgencies) ==
    [type : {"service"}, description : descriptions, urgency : urgencies]
NoNeed == [type |-> "none", description |-> "", urgency |-> 0]

NoAgent ==
    [id |-> 0, availability |-> FALSE, currentTask |-> NoTask,
     performance |-> [responseTime |-> 0, resolutionRate |-> 0, efficiency |-> 0,
                      citizenSatisfaction |-> 0]]
NoSocial == [healthcareAccessScore |-> 0, educationQualityIndex |-> 0, communityWellbeing |-> 0]

VARIABLES
    agents,     \* the registry: the Map's entries in insertion order
    pc,         \* per handleCitizenNeed invocation: where it is suspended
    need,       \* per invocation: its argument
    agent,      \* per invocation: the local `agent` (the selected object)
    trace,      \* per invocation: the effects it has produced so far, in order
    result,     \* per invocation: how its promise settled
    tracked,    \* the telemetry sent by the listener that ran most recently
    enrol,      \* the registerAgent invocation: position, argument, effects, outcome
    response,   \* the response of the environmental-metrics route to the latest GET
    fetched,    \* what the latest getAgentTasks call returned
    run         \* the handleCitizenNeed calls made since the latest registry event

vars == <<agents, pc, need, agent, trace, result, tracked, enrol, response, fetched, run>>
\* what lies outside the registry, the listeners and handleCitizenNeed
others == <<enrol, response, fetched, run>>

----------------------------------------------------------------------------
\* Effects on the collaborators

Effect(kind, name, agentId, task, registryTask, social) ==
    [kind |-> kind, name |-> name, agentId |-> agentId, task |-> task,
     registryTask |-> registryTask, social |-> social]

\* analyticsService.trackEvent(name, {agentId, ...})
TrackEvent(name, agentId) == Effect("telemetry", name, agentId, NoTask, NoTask, NoSocial)

----------------------------------------------------------------------------
\* Map<string, DepartmentAgent>

Keys(m) == {m[i].id : i \in 1..Len(m)}
Has(m, id) == \E i \in 1..Len(m) : m[i].id = id
IndexOf(m, id) == CHOOSE i \in 1..Len(m) : m[i].id = id
Get(m, id) == IF Has(m, id) THEN m[IndexOf(m, id)] ELSE NoAgent

\* Map.prototype.set: a present key keeps its place, a new key goes last
MapSet(m, a) ==
    IF Has(m, a.id) THEN [m EXCEPT ![IndexOf(m, a.id)] = a] ELSE Append(m, a)

----------------------------------------------------------------------------
\* Listeners on the department service

\* replaces a registered agent only, as the health listener does
upsertIfPresent(m, a) == IF Has(m, a.id) THEN MapSet(m, a) ELSE m

\* "agentAssigned": this.agents.set(agent.id, agent)
upsert(m, a) == MapSet(m, a)

\* an update that drops an agent reported as unavailable
healthUpdateEvict(m, a) ==
    IF ~Has(m, a.id) THEN m
    ELSE IF a.availability THEN MapSet(m, a)
    ELSE SelectSeq(m, LAMBDA x : x.id # a.id)

\* the update without its `this.agents.has(agent.id)` guard
healthUpdateAlways(m, a) == MapSet(m, a)

\* an update that merges: it keeps the task the registry holds
healthUpdateKeepTask(m, a) ==
    IF Has(m, a.id) THEN MapSet(m, [a EXCEPT !.currentTask = Get(m, a.id).currentTask]) ELSE m

\* "agentsHealthUpdated": one iteration of agents.forEach
healthUpdateOne(m, a) == IF Has(m, a.id) THEN MapSet(m, a) ELSE m

RECURSIVE applyHealthUpdate(_, _)
applyHealthUpdate(m, list) ==
    IF list = <<>> THEN m
    ELSE applyHealthUpdate(healthUpdateOne(m, Head(list)), Tail(list))

agentAssigned(a) ==
    /\ agents' = upsert(agents, a)
    /\ tracked' = <<TrackEvent("agent_registered", a.id)>>
    /\ UNCHANGED <<pc, need, agent, trace, result>>

agentsHealthUpdated(list) ==
    /\ agents' = applyHealthUpdate(agents, list)
    /\ tracked' = <<>>
    /\ UNCHANGED <<pc, need, agent, trace, result>>

----------------------------------------------------------------------------
\* handleCitizenNeed

\* a filter that forgets `!agent.currentTask`
EligibleIgnoringTask(a) == a.availability

\* a filter that forgets `agent.schedule.availability`
EligibleIgnoringAvailability(a) == a.currentTask = NoTask

Eligible(a) == a.availability /\ a.currentTask = NoTask

\* no filter at all: every registered agent is a candidate
availableAgentsUnfiltered(m) == m

availableAgents(m) == SelectSeq(m, Eligible)

Score(a) ==
    a.performance.responseTime * 4 + a.performance.resolutionRate * 4
        + a.performance.efficiency * 2

\* compares the value reported as `score` in the telemetry (the efficiency)
BetterByEfficiency(best, current) ==
    IF current.performance.efficiency > best.performance.efficiency THEN current ELSE best

\* `>=` for `>`: the later agent wins a tie
BetterOrEqual(best, current) == IF Score(current) >= Score(best) THEN current ELSE best

Better(best, current) == IF Score(current) > Score(best) THEN current ELSE best

\* Array.prototype.reduce without an initial value, on a non-empty array
\* takes the first eligible agent without comparing scores
selectFirstAgent(list) == list[1]

RECURSIVE reduce(_, _, _)
reduce(list, i, best) ==
    IF i > Len(list) THEN best ELSE reduce(list, i + 1, Better(best, list[i]))

selectBestAgent(list) == reduce(list, 2, list[1])

\* `>=` for `>` at both thresholds
PriorityInclusive(urgency) ==
    IF urgency >= 7 THEN "high" ELSE IF urgency >= 3 THEN "medium" ELSE "low"

Priority(urgency) ==
    IF urgency > 7 THEN "high" ELSE IF urgency > 3 THEN "medium" ELSE "low"

NewTask(n) ==
    [type |-> "citizen_request", description |-> n.description,
     priority |-> Priority(n.urgency)]

\* also takes the agent off duty when it gets the task
writeTaskMarkBusy(st, agentId, task) ==
    [agents |-> MapSet(st.agents, [Get(st.agents, agentId) EXCEPT !.currentTask = task,
                                                             !.availability = FALSE]),
     trace |-> Append(st.trace, Effect("write", "currentTask", agentId, task,
                                        Get(st.agents, agentId).currentTask, NoSocial))]

\* agent.currentTask = task; this.agents.set(agentId, agent)
writeTask(st, agentId, task) ==
    [agents |-> MapSet(st.agents, [Get(st.agents, agentId) EXCEPT !.currentTask = task]),
     trace |-> Append(st.trace, Effect("write", "currentTask", agentId, task,
                                        Get(st.agents, agentId).currentTask, NoSocial))]

track(st, name, agentId) ==
    [st EXCEPT !.trace = Append(st.trace, TrackEvent(name, agentId))]

\* this.emit("taskAssigned", {agentId, task}); registryTask is what the
\* registry holds for agentId while the subscribers run
emitTaskAssigned(st, agentId, task) ==
    [st EXCEPT !.trace = Append(st.trace,
        Effect("emit", "taskAssigned", agentId, task,
               Get(st.agents, agentId).currentTask, NoSocial))]

\* writes onto the first registry entry, not onto the selected one
assignTaskFirstEntry(st, agentId, task) ==
    IF ~Has(st.agents, agentId) THEN st
    ELSE emitTaskAssigned(track(writeTask(st, st.agents[1].id, task), "task_assigned", agentId),
                          agentId, task)

\* notifies the subscribers before it writes the task
assignTaskEmitFirst(st, agentId, task) ==
    IF ~Has(st.agents, agentId) THEN st
    ELSE track(writeTask(emitTaskAssigned(st, agentId, task), agentId, task),
               "task_assigned", agentId)

assignTask(st, agentId, task) ==
    IF ~Has(st.agents, agentId) THEN st
    ELSE emitTaskAssigned(track(writeTask(st, agentId, task), "task_assigned", agentId),
                          agentId, task)

\* the two performance fields exchanged
metricsUpdateSwapped(a) ==
    Effect("metrics", "updateMetrics", 0, NoTask, NoTask,
           [healthcareAccessScore |-> a.performance.citizenSatisfaction,
            educationQualityIndex |-> 8,
            communityWellbeing |-> a.performance.efficiency])

\* metricsService.updateMetrics({social: {...}})
metricsUpdate(a) ==
    Effect("metrics", "updateMetrics", 0, NoTask, NoTask,
           [healthcareAccessScore |-> a.performance.efficiency,
            educationQualityIndex |-> 8,
            communityWellbeing |-> a.performance.citizenSatisfaction])

\* lines 69-80: nobody is eligible
handleNoAgents(c, n) ==
    /\ pc[c] \in {"idle", "done"}
    /\ Len(availableAgents(agents)) = 0
    /\ trace' = [trace EXCEPT ![c] = <<TrackEvent("no_available_agents", 0)>>]
    /\ pc' = [pc EXCEPT ![c] = "done"]
    /\ result' = [result EXCEPT ![c] = "ok"]
    /\ need' = [need EXCEPT ![c] = n]
    /\ agent' = [agent EXCEPT ![c] = NoAgent]
    /\ UNCHANGED <<agents, tracked>>

\* lines 69-88, up to the suspension at `await this.assignTask(...)`
handleAssign(c, n) ==
    /\ pc[c] \in {"idle", "done"}
    /\ Len(availableAgents(agents)) # 0
    /\ LET best == selectBestAgent(availableAgents(agents))
           st0 == track([agents |-> agents, trace |-> <<>>], "agent_selected", best.id)
           st1 == assignTask(st0, best.id, NewTask(n))
       IN /\ agents' = st1.agents
          /\ trace' = [trace EXCEPT ![c] = st1.trace]
          /\ agent' = [agent EXCEPT ![c] = Get(st1.agents, best.id)]
    /\ pc' = [pc EXCEPT ![c] = "awaitAssign"]
    /\ result' = [result EXCEPT ![c] = "pending"]
    /\ need' = [need EXCEPT ![c] = n]
    /\ UNCHANGED tracked

handleCitizenNeed(c, n) == handleNoAgents(c, n) \/ handleAssign(c, n)

\* lines 90-97: resumed after assignTask's promise, calls updateMetrics
\* and suspends on its promise
handleUpdateMetrics(c) ==
    /\ pc[c] = "awaitAssign"
    /\ trace' = [trace EXCEPT ![c] = Append(@, metricsUpdate(agent[c]))]
    /\ pc' = [pc EXCEPT ![c] = "awaitMetrics"]
    /\ UNCHANGED <<agents, tracked, need, agent, result>>

\* updateMetrics' promise fulfils: handleCitizenNeed returns
handleReturn(c) ==
    /\ pc[c] = "awaitMetrics"
    /\ pc' = [pc EXCEPT ![c] = "done"]
    /\ result' = [result EXCEPT ![c] = "ok"]
    /\ UNCHANGED <<agents, tracked, need, agent, trace>>

\* rejects, and first takes the task back from the agent
handleThrowRollback(c) ==
    /\ pc[c] = "awaitMetrics"
    /\ pc' = [pc EXCEPT ![c] = "done"]
    /\ result' = [result EXCEPT ![c] = "error"]
    /\ agents' = healthUpdateOne(agents, [agent[c] EXCEPT !.currentTask = NoTask])
    /\ UNCHANGED <<tracked, need, agent, trace>>

\* updateMetrics' promise rejects: handleCitizenNeed rejects with its error
handleThrow(c) ==
    /\ pc[c] = "awaitMetrics"
    /\ pc' = [pc EXCEPT ![c] = "done"]
    /\ result' = [result EXCEPT ![c] = "error"]
    /\ UNCHANGED <<agents, tracked, need, agent, trace>>

----------------------------------------------------------------------------
\* registerAgent (lines 165-205): embedding, vector upsert, telemetry

\* Agent objects a caller may enrol; an empty department is a missing one
EnrolAgents == [id : AgentIds, role : {"clerk"}, department : {"", "health"}]
NoEnrolAgent == [id |-> 0, role |-> "", department |-> ""]
\* failures of the embedding provider and of the vector store
ProviderErrors == {"NetworkError", "RateLimitError"}

NotEnrolling ==
    [pc |-> "idle", agent |-> NoEnrolAgent, trace |-> <<>>, result |-> "none",
     error |-> "none"]

\* a call to a collaborator, or a console line
EnrolEffect(kind, agentId, detail) == [kind |-> kind, agentId |-> agentId, detail |-> detail]

\* agent.department || "general"
DepartmentOf(a) == IF a.department = "" THEN "general" ELSE a.department

\* togetherService.createEmbedding(`${role} ${personality} ${interests}`)
createEmbedding(a) == EnrolEffect("embedding", a.id, a.role)

\* vectorStore.upsert({ id: `agent-${agent.id}`, values: embedding, metadata })
vectorUpsert(a) == EnrolEffect("upsert", a.id, DepartmentOf(a))

\* the call runs to its first await: the embedding request is out
registerAgent(a) ==
    /\ enrol.pc \in {"idle", "done"}
    /\ enrol' = [pc |-> "awaitEmbedding", agent |-> a, trace |-> <<createEmbedding(a)>>,
                 result |-> "pending", error |-> "none"]
    /\ UNCHANGED <<agents, pc, need, agent, trace, result, tracked>>

\* the embedding arrives: the upsert request goes out
registerEmbeddingResolved ==
    /\ enrol.pc = "awaitEmbedding"
    /\ enrol' = [enrol EXCEPT !.pc = "awaitUpsert",
                              !.trace = Append(@, vectorUpsert(enrol.agent))]
    /\ UNCHANGED <<agents, pc, need, agent, trace, result, tracked>>

\* wraps whatever failed into an error of the service's own kind
registerCatchWrapped(e) ==
    [enrol EXCEPT !.pc = "done", !.result = "error", !.error = "EnrollmentError",
                  !.trace = Append(@, EnrolEffect("console.error", enrol.agent.id, e))]

\* catch (error) { console.error(...); throw error; }
registerCatch(e) ==
    [enrol EXCEPT !.pc = "done", !.result = "error", !.error = e,
                  !.trace = Append(@, EnrolEffect("console.error", enrol.agent.id, e))]

\* goes on to the vector store with an empty embedding
registerEmbeddingRejectedFallback(e) ==
    /\ enrol.pc = "awaitEmbedding"
    /\ enrol' = [enrol EXCEPT !.pc = "awaitUpsert", !.error = e,
                              !.trace = Append(@, vectorUpsert(enrol.agent))]
    /\ UNCHANGED <<agents, pc, need, agent, trace, result, tracked>>

\* the embedding provider fails
registerEmbeddingRejected(e) ==
    /\ enrol.pc = "awaitEmbedding"
    /\ enrol' = registerCatch(e)
    /\ UNCHANGED <<agents, pc, need, agent, trace, result, tracked>>

\* also enters the enrolled agent into the registry, free for work
registerUpsertResolvedIntoRegistry ==
    /\ enrol.pc = "awaitUpsert"
    /\ enrol' = [enrol EXCEPT !.pc = "done", !.result = "ok",
                     !.trace = @ \o <<EnrolEffect("telemetry", enrol.agent.id, "agent_registered"),
                                      EnrolEffect("console.log", enrol.agent.id, "")>>]
    /\ agents' = MapSet(agents, [id |-> enrol.agent.id, availability |-> TRUE,
                                 currentTask |-> NoTask, performance |-> PerfA])
    /\ UNCHANGED <<pc, need, agent, trace, result, tracked>>

\* the upsert is stored: telemetry, console line, the promise resolves
registerUpsertResolved ==
    /\ enrol.pc = "awaitUpsert"
    /\ enrol' = [enrol EXCEPT !.pc = "done", !.result = "ok",
                     !.trace = @ \o <<EnrolEffect("telemetry", enrol.agent.id, "agent_registered"),
                                      EnrolEffect("console.log", enrol.agent.id, "")>>]
    /\ UNCHANGED <<agents, pc, need, agent, trace, result, tracked>>

\* the vector store fails
registerUpsertRejected(e) ==
    /\ enrol.pc = "awaitUpsert"
    /\ enrol' = registerCatch(e)
    /\ UNCHANGED <<agents, pc, need, agent, trace, result, tracked>>

\* the steps of one enrolment
Enrolment(enrolled, errors) ==
    \/ \E a \in enrolled : registerAgent(a) /\ UNCHANGED <<response, fetched, run>>
    \/ registerEmbeddingResolved /\ UNCHANGED <<response, fetched, run>>
    \/ \E e \in errors : registerEmbeddingRejected(e) /\ UNCHANGED <<response, fetched, run>>
    \/ registerUpsertResolved /\ UNCHANGED <<response, fetched, run>>
    \/ \E e \in errors : registerUpsertRejected(e) /\ UNCHANGED <<response, fetched, run>>

----------------------------------------------------------------------------
\* GET /districts/[id]/metrics/environmental (route.ts)

NoResponse == [id |-> "none", status |-> 0, body |-> "none"]

\* the literal of route.ts lines 9-14
environmentalData ==
    [airQuality |-> 250, noiseLevel |-> 60, crowdingLevel |-> 68, greenSpaceUsage |-> 78]

\* district identifiers of the path: well-formed, empty, malformed
DistrictIds == {"d1", "d2", "", "../x"}

\* validates the identifier and refuses an empty one
GETValidated(id) ==
    /\ response' = IF id = "" THEN [id |-> id, status |-> 500, body |-> "error"]
                   ELSE [id |-> id, status |-> 200, body |-> environmentalData]
    /\ UNCHANGED <<agents, pc, need, agent, trace, result, tracked, enrol, fetched, run>>

\* NextResponse.json(data): status 200; params.id is not read. Building the
\* literal and the response cannot throw, so the catch branch (lines 16-21)
\* is never entered.
GET(id) ==
    /\ response' = [id |-> id, status |-> 200, body |-> environmentalData]
    /\ UNCHANGED <<agents, pc, need, agent, trace, result, tracked, enrol, fetched, run>>

----------------------------------------------------------------------------
\* getAgentTasks (lines 147-163)

RECURSIVE tasksOf(_)
\* .filter(agent => currentTask !== null && !== undefined).map(agent => ({agentId, task}))
tasksOf(list) ==
    IF list = <<>> THEN <<>>
    ELSE LET rest == tasksOf(Tail(list))
         IN IF Head(list).currentTask # NoTask
            THEN <<[agentId |-> Head(list).id, task |-> Head(list).currentTask]>> \o rest
            ELSE rest

\* departmentService.getDepartmentAgents resolves with `list`; the registry
\* of this service is not consulted
getAgentTasks(list) ==
    /\ fetched' = tasksOf(list)
    /\ UNCHANGED <<agents, pc, need, agent, trace, result, tracked>>

NoRun == [eligible |-> <<>>, assigned |-> <<>>, calls |-> 0]

----------------------------------------------------------------------------
RECURSIVE SeqsUpTo(_, _)
SeqsUpTo(S, n) ==
    IF n = 0 THEN {<<>>}
    ELSE LET shorter == SeqsUpTo(S, n - 1)
         IN shorter \cup {Append(s, x) : s \in shorter, x \in S}

Init ==
    /\ agents = <<>>
    /\ pc = [c \in Calls |-> "idle"]
    /\ need = [c \in Calls |-> NoNeed]
    /\ agent = [c \in Calls |-> NoAgent]
    /\ trace = [c \in Calls |-> <<>>]
    /\ result = [c \in Calls |-> "none"]
    /\ tracked = <<>>
    /\ enrol = NotEnrolling
    /\ response = NoResponse
    /\ fetched = <<>>
    /\ run = NoRun

\* the service driven by the department service's events and by callers of
\* handleCitizenNeed, with inputs from the given sets
Step(delivered, updates, needs, calls) ==
    \/ \E a \in delivered : agentAssigned(a) /\ UNCHANGED others
    \/ \E list \in updates : agentsHealthUpdated(list) /\ UNCHANGED others
    \/ \E c \in calls, n \in needs : handleCitizenNeed(c, n) /\ UNCHANGED others
    \/ \E c \in calls : handleUpdateMetrics(c) /\ UNCHANGED others
    \/ \E c \in calls : handleReturn(c) /\ UNCHANGED others
    \/ \E c \in calls : handleThrow(c) /\ UNCHANGED others

\* concurrent invocations; a health update reports an agent free again
ConcurrentAgents == Agents(BOOLEAN, {NoTask, ExternalTask}, {PerfA})
ConcurrentUpdates == SeqsUpTo(Agents({TRUE}, {NoTask}, {PerfA}), MaxUpdateLen)
ConcurrentNeeds == NeedsWith({"d1", "d2"}, {8})
Next == Step(ConcurrentAgents, ConcurrentUpdates, ConcurrentNeeds, Calls)
Spec == Init /\ [][Next]_vars

\* one invocation at a time, agents of every performance; the unavailable
\* agents have the best score
SelectionAgents ==
    Agents({TRUE}, {NoTask}, {PerfA, PerfB, PerfC}) \cup Agents({FALSE}, {NoTask}, {PerfA})
SelectionUpdates == SeqsUpTo(Agents({TRUE}, {NoTask}, {PerfC}), MaxUpdateLen)
SelectionNeeds == NeedsWith({"d1"}, {5})
NextSelection == Step(SelectionAgents, SelectionUpdates, SelectionNeeds, {1})
SpecSelection == Init /\ [][NextSelection]_vars

\* one invocation at a time, needs of every urgency
PriorityAgents == Agents({TRUE}, {NoTask}, {PerfA})
PriorityUpdates == SeqsUpTo(PriorityAgents, MaxUpdateLen)
PriorityNeeds == NeedsWith({"d1", "d2"}, {1, 3, 5, 7, 8})
NextPriority == Step(PriorityAgents, PriorityUpdates, PriorityNeeds, {1})
SpecPriority == Init /\ [][NextPriority]_vars

\* the registry under every kind of event
RegistryAgents ==
    Agents(BOOLEAN, {NoTask}, {PerfA}) \cup Agents({TRUE}, {ExternalTask}, {PerfA})
RegistryUpdates == SeqsUpTo(Agents({TRUE}, {NoTask, ExternalTask}, {PerfA}), MaxUpdateLen)
RegistryNeeds == NeedsWith({"d1"}, {5})
NextRegistry == Step(RegistryAgents, RegistryUpdates, RegistryNeeds, {1})
SpecRegistry == Init /\ [][NextRegistry]_vars

\* enrolments beside a small registry
EnrollmentAgents == Agents({TRUE}, {NoTask, ExternalTask}, {PerfA})
EnrollmentUpdates == SeqsUpTo(Agents({TRUE}, {NoTask}, {PerfA}), 1)
EnrollmentNeeds == NeedsWith({"d1"}, {5})
NextEnrollment ==
    \/ Step(EnrollmentAgents, EnrollmentUpdates, EnrollmentNeeds, {1})
    \/ Enrolment(EnrolAgents, ProviderErrors)
SpecEnrollment == Init /\ [][NextEnrollment]_vars

\* requests to the route while the service is at work
RouteAgents == Agents({TRUE}, {NoTask}, {PerfA})
RouteUpdates == SeqsUpTo(RouteAgents, 1)
RouteNeeds == NeedsWith({"d1"}, {5})
NextRoute ==
    \/ Step(RouteAgents, RouteUpdates, RouteNeeds, {1})
    \/ \E id \in DistrictIds : GET(id)
SpecRoute == Init /\ [][NextRoute]_vars

\* every operation of the service side by side
LifecycleAgents == Agents(BOOLEAN, {NoTask}, {PerfA})
LifecycleUpdates == SeqsUpTo(LifecycleAgents, 1)
LifecycleNeeds == NeedsWith({"d1"}, {5})
LifecycleEnrolled == {a \in EnrolAgents : a.id = 1 /\ a.department = "health"}
\* what getDepartmentAgents may resolve with
LifecycleDepartment ==
    {<<>>, <<[id |-> 1, availability |-> TRUE, currentTask |-> NoTask, performance |-> PerfA],
             [id |-> 2, availability |-> TRUE, currentTask |-> ExternalTask, performance |-> PerfA]>>}
NextLifecycle ==
    \/ Step(LifecycleAgents, LifecycleUpdates, LifecycleNeeds, {1})
    \/ Enrolment(LifecycleEnrolled, {"NetworkError"})
    \/ \E list \in LifecycleDepartment : getAgentTasks(list) /\ UNCHANGED <<enrol, response, run>>
SpecLifecycle == Init /\ [][NextLifecycle]_vars

\* runs of calls between registry events: `run` records the agents that
\* were eligible when the latest listener finished, the agents selected by
\* the calls made since, and the number of those calls
MaxRun == MaxAgents + 1
runStart(m) == [eligible |-> availableAgents(m), assigned |-> <<>>, calls |-> 0]
runCall(r, selected) ==
    [r EXCEPT !.calls = @ + 1,
              !.assigned = IF selected = NoAgent THEN @ ELSE Append(@, selected)]
Run(delivered, updates, needs, calls) ==
    \/ \E a \in delivered :
          agentAssigned(a) /\ run' = runStart(agents') /\ UNCHANGED <<enrol, response, fetched>>
    \/ \E list \in updates :
          agentsHealthUpdated(list) /\ run' = runStart(agents')
              /\ UNCHANGED <<enrol, response, fetched>>
    \/ \E c \in calls, n \in needs :
          /\ run.calls < MaxRun
          /\ handleCitizenNeed(c, n)
          /\ run' = runCall(run, agent'[c])
          /\ UNCHANGED <<enrol, response, fetched>>
    \/ \E c \in calls : handleUpdateMetrics(c) /\ UNCHANGED others
    \/ \E c \in calls : handleReturn(c) /\ UNCHANGED others
    \/ \E c \in calls : handleThrow(c) /\ UNCHANGED others

RunAgents ==
    Agents({TRUE}, {NoTask}, {PerfA, PerfB, PerfC}) \cup Agents({FALSE}, {NoTask}, {PerfA})
RunUpdates == SeqsUpTo(Agents({TRUE}, {NoTask}, {PerfC}), 1)
RunNeeds == NeedsWith({"d1"}, {5})
NextRun == Run(RunAgents, RunUpdates, RunNeeds, {1})
SpecRun == Init /\ [][NextRun]_vars

----------------------------------------------------------------------------
\* Properties

\* the invocation has assigned a task (it found an eligible agent)
Assigned(c) == pc[c] # "idle" /\ agent[c] # NoAgent

\* C1: a handleCitizenNeed call changes at most one registry entry, and the
\* entry it changes (the one that receives the task) was available and had
\* no current task when the call was made.
C1_TaskOnlyOntoEligible ==
    [][\A c \in Calls, n \in RegistryNeeds :
          handleCitizenNeed(c, n) =>
              /\ Len(agents') = Len(agents)
              /\ Cardinality({i \in 1..Len(agents) : agents'[i] # agents[i]}) <= 1
              /\ \A i \in 1..Len(agents) :
                    agents'[i] # agents[i] =>
                        /\ agents[i].availability
                        /\ agents[i].currentTask = NoTask
                        /\ agents'[i].id = agents[i].id
                        /\ agent'[c].id = agents[i].id]_vars

\* a call has assigned a task while another registered agent was not eligible
C1_Witness ==
    \E c \in Calls :
        /\ pc[c] = "awaitAssign"
        /\ \E i \in 1..Len(agents) :
              agents[i].id # agent[c].id /\ ~agents[i].availability

\* C2: a handleCitizenNeed call, whatever invocations are suspended around
\* it, never selects a registry entry that holds a task and leaves every
\* such entry as it was: no assigned task is overwritten by another need.
C2_NoTaskOverwritten ==
    [][\A c \in Calls, n \in ConcurrentNeeds :
          handleCitizenNeed(c, n) =>
              \A i \in 1..Len(agents) :
                  agents[i].currentTask # NoTask =>
                      /\ agents'[i] = agents[i]
                      /\ agent'[c].id # agents[i].id]_vars

\* two invocations are suspended at once, each with its own agent, and the
\* registry holds the task of each
C2_Witness ==
    \E c, d \in Calls :
        /\ c # d
        /\ pc[c] \in {"awaitAssign", "awaitMetrics"}
        /\ pc[d] \in {"awaitAssign", "awaitMetrics"}
        /\ agent[c].id # agent[d].id
        /\ need[c].description # need[d].description
        /\ Get(agents, agent[c].id).currentTask = NewTask(need[c])
        /\ Get(agents, agent[d].id).currentTask = NewTask(need[d])

NoneEligible(m) ==
    \A i \in 1..Len(m) : ~(m[i].availability /\ m[i].currentTask = NoTask)

\* C3: when no registered agent is available and without a task (the empty
\* registry included), handleCitizenNeed leaves the registry unchanged, its
\* only effect is the telemetry event no_available_agents, and it returns
\* normally.
C3_NoEligibleNoTask ==
    [][\A n \in RegistryNeeds :
          (handleCitizenNeed(1, n) /\ NoneEligible(agents)) =>
              /\ agents' = agents
              /\ trace'[1] = <<TrackEvent("no_available_agents", 0)>>
              /\ pc'[1] = "done"
              /\ result'[1] = "ok"
              /\ agent'[1] = NoAgent]_vars

\* a call has returned without an agent while the registry held an
\* unavailable agent and a busy one
C3_Witness ==
    /\ pc[1] = "done" /\ agent[1] = NoAgent /\ result[1] = "ok"
    /\ NoneEligible(agents)
    /\ \E i, j \in 1..Len(agents) :
          ~agents[i].availability /\ agents[j].availability /\ agents[j].currentTask # NoTask

IsEligibleEntry(m, i) == m[i].availability /\ m[i].currentTask = NoTask

\* C4: when some agent is eligible, handleCitizenNeed gives the task to an
\* eligible agent whose score is at least the score of every eligible agent.
C4_SelectsMaximalScore ==
    [][\A n \in SelectionNeeds :
          (handleCitizenNeed(1, n) /\ ~NoneEligible(agents)) =>
              /\ pc'[1] = "awaitAssign"
              /\ \E i \in 1..Len(agents) :
                    /\ agents[i].id = agent'[1].id
                    /\ IsEligibleEntry(agents, i)
                    /\ agents'[i].currentTask = NewTask(n)
                    /\ \A j \in 1..Len(agents) :
                          IsEligibleEntry(agents, j) => Score(agents[i]) >= Score(agents[j])]_vars

\* the selected agent is not the first eligible one: an eligible agent of a
\* lower score stands before it
C4_Witness ==
    /\ pc[1] = "awaitAssign"
    /\ \E i, j \in 1..Len(agents) :
          /\ i < j
          /\ agents[j].id = agent[1].id
          /\ IsEligibleEntry(agents, i)
          /\ Score(agents[i]) < Score(agents[j])

\* C5: among the eligible agents of the best score the first in the
\* registry's iteration order is selected, and no step moves a registered
\* identifier to another place in that order.
C5_FirstWinsTies ==
    [][/\ Len(agents) <= Len(agents')
       /\ \A i \in 1..Len(agents) : agents'[i].id = agents[i].id
       /\ \A n \in SelectionNeeds :
             (handleCitizenNeed(1, n) /\ ~NoneEligible(agents)) =>
                 \A i, j \in 1..Len(agents) :
                     (agents[i].id = agent'[1].id /\ j < i /\ IsEligibleEntry(agents, j))
                         => Score(agents[j]) < Score(agents[i])]_vars

\* the selected agent ties with an eligible agent that stands after it
C5_Witness ==
    /\ pc[1] = "awaitAssign"
    /\ \E i, j \in 1..Len(agents) :
          /\ i < j
          /\ agents[i].id = agent[1].id
          /\ IsEligibleEntry(agents, j)
          /\ Score(agents[j]) = Score(agent[1])
          /\ agents[j].performance # agent[1].performance

\* the task carried by the taskAssigned notification of invocation c
EmittedTasks(c) ==
    {trace[c][k].task : k \in {k \in 1..Len(trace[c]) : trace[c][k].kind = "emit"}}

\* C6: the task created for a need has priority high exactly when the
\* urgency is above 0.7, medium exactly when it is above 0.3 and at most
\* 0.7, low exactly when it is at most 0.3; its type is citizen_request and
\* its description is the need's.
C6_PriorityFromUrgency ==
    \A c \in Calls :
        Assigned(c) =>
            /\ EmittedTasks(c) # {}
            /\ \A t \in EmittedTasks(c) \cup {agent[c].currentTask} :
                  /\ t.type = "citizen_request"
                  /\ t.description = need[c].description
                  /\ (t.priority = "high") <=> (need[c].urgency > 7)
                  /\ (t.priority = "medium") <=> (need[c].urgency > 3 /\ need[c].urgency <= 7)
                  /\ (t.priority = "low") <=> (need[c].urgency <= 3)

\* a need of urgency exactly 0.7 got a medium task and is in the registry
C6_Witness ==
    \E c \in Calls :
        /\ Assigned(c)
        /\ need[c].urgency = 7
        /\ Get(agents, agent[c].id).currentTask
              = [type |-> "citizen_request", description |-> need[c].description,
                 priority |-> "medium"]

\* the last agent of the list with this identifier
LastWithId(list, id) ==
    list[CHOOSE k \in 1..Len(list) :
            /\ list[k].id = id
            /\ \A l \in (k + 1)..Len(list) : list[l].id # id]

\* C7: whatever list the health listener receives in a reachable state, the
\* registry it leaves has the same identifiers in the same order; an entry
\* whose identifier is in the list takes the list's state for it (the last
\* one listed), every other entry is unchanged, and an agent of the list
\* whose identifier is not registered is ignored.
C7_HealthUpdateAddsNoId ==
    \A list \in RegistryUpdates :
        LET updated == applyHealthUpdate(agents, list)
        IN /\ Keys(updated) = Keys(agents)
           /\ Len(updated) = Len(agents)
           /\ \A i \in 1..Len(agents) :
                 updated[i] =
                     IF \E k \in 1..Len(list) : list[k].id = agents[i].id
                     THEN LastWithId(list, agents[i].id)
                     ELSE agents[i]

\* the health listener ran last: it replaced the task an invocation had
\* written by the one of the update, and no second identifier is registered
C7_Witness ==
    /\ tracked = <<>>
    /\ Len(agents) = 1
    /\ pc[1] = "awaitAssign"
    /\ agents[1].id = agent[1].id
    /\ agents[1].currentTask = ExternalTask

\* C8: the agentAssigned listener stores the delivered agent under its
\* identifier, present before or not, leaves every other entry as it was,
\* and sends one agent_registered telemetry event.
C8_UpsertInsertsOrReplaces ==
    [][\A a \in RegistryAgents :
          agentAssigned(a) =>
              /\ Keys(agents') = Keys(agents) \cup {a.id}
              /\ Get(agents', a.id) = a
              /\ Cardinality({i \in 1..Len(agents') : agents'[i].id = a.id}) = 1
              /\ \A id \in Keys(agents) \ {a.id} : Get(agents', id) = Get(agents, id)
              /\ tracked' = <<TrackEvent("agent_registered", a.id)>>]_vars

\* the listener has run for the second identifier of the registry
C8_Witness ==
    /\ Len(agents) = 2
    /\ tracked = <<TrackEvent("agent_registered", agents[2].id)>>

Names(t) == [k \in 1..Len(t) |-> t[k].name]

\* C9: an invocation that found an agent produces, in this order, the
\* agent_selected telemetry, the write of the task, the task_assigned
\* telemetry and one taskAssigned notification with the agent's identifier
\* and the task, then the metrics update; when the notification goes out
\* the registry holds the task for that agent.
C9_NotificationAfterWrite ==
    \A c \in Calls :
        Assigned(c) =>
            /\ Names(trace[c]) =
                  IF pc[c] = "awaitAssign"
                  THEN <<"agent_selected", "currentTask", "task_assigned", "taskAssigned">>
                  ELSE <<"agent_selected", "currentTask", "task_assigned", "taskAssigned",
                         "updateMetrics">>
            /\ trace[c][1].agentId = agent[c].id
            /\ trace[c][2].agentId = agent[c].id
            /\ trace[c][2].task = NewTask(need[c])
            /\ trace[c][4].kind = "emit"
            /\ trace[c][4].agentId = agent[c].id
            /\ trace[c][4].task = NewTask(need[c])
            /\ trace[c][4].registryTask = NewTask(need[c])

\* an invocation has sent its notification and its metrics update
C9_Witness ==
    /\ pc[1] = "awaitMetrics"
    /\ Len(trace[1]) = 5
    /\ trace[1][4].name = "taskAssigned"

MetricsOf(c) == {k \in 1..Len(trace[c]) : trace[c][k].kind = "metrics"}

\* C10: an invocation that found an agent pushes one metrics update, after
\* the assignment, with the agent's efficiency as healthcare-access score,
\* its citizen satisfaction as community wellbeing and 0.8 as education
\* quality; an invocation that found no agent pushes none.
C10_MetricsFromSelectedAgent ==
    \A c \in Calls :
        /\ (pc[c] = "done" /\ agent[c] = NoAgent) => MetricsOf(c) = {}
        /\ (Assigned(c) /\ pc[c] = "awaitAssign") => MetricsOf(c) = {}
        /\ (Assigned(c) /\ pc[c] \in {"awaitMetrics", "done"}) =>
              /\ Cardinality(MetricsOf(c)) = 1
              /\ \A k \in MetricsOf(c) :
                    /\ trace[c][k].social.healthcareAccessScore
                          = agent[c].performance.efficiency
                    /\ trace[c][k].social.communityWellbeing
                          = agent[c].performance.citizenSatisfaction
                    /\ trace[c][k].social.educationQualityIndex = 8

\* a call returned after pushing the metrics of an agent whose efficiency
\* and satisfaction differ, and the registry has since replaced that agent
C10_Witness ==
    /\ pc[1] = "done" /\ Assigned(1)
    /\ agent[1].performance = PerfC
    /\ Get(agents, agent[1].id).performance # PerfC

\* C14: the registry entry that receives the task is the very entry that
\* passed the filter of the same call: it is the only entry that changes, it
\* was eligible before the step, and the call's local agent is that entry.
C14_WriteOntoFilteredRecord ==
    [][\A n \in SelectionNeeds :
          (handleCitizenNeed(1, n) /\ ~NoneEligible(agents)) =>
              \E i \in 1..Len(agents) :
                  /\ IsEligibleEntry(agents, i)
                  /\ agents'[i] # agents[i]
                  /\ agent'[1] = agents'[i]
                  /\ [agent'[1] EXCEPT !.currentTask = NoTask] = agents[i]
                  /\ \A j \in 1..Len(agents) : agents'[j] # agents[j] => j = i]_vars

\* a health update has replaced the agent of a suspended invocation, and a
\* later call then gave it a task again
C14_Witness ==
    /\ pc[1] = "awaitAssign"
    /\ Len(agents) = 2
    /\ agent[1].id = agents[2].id
    /\ agent[1].performance = PerfC
    /\ agents[1].currentTask = NewTask(need[1])

\* C16: a handleCitizenNeed call that finds an agent changes the current
\* task of the selected agent and nothing else in the registry: the
\* identifiers, every other entry, and the selected agent's availability and
\* performance are as before.
C16_OnlyCurrentTaskChanges ==
    [][\A n \in SelectionNeeds :
          (handleCitizenNeed(1, n) /\ ~NoneEligible(agents)) =>
              /\ Len(agents') = Len(agents)
              /\ \A i \in 1..Len(agents) :
                    /\ agents'[i].id = agents[i].id
                    /\ agents'[i].availability = agents[i].availability
                    /\ agents'[i].performance = agents[i].performance
                    /\ agents'[i].currentTask =
                          IF agents[i].id = agent'[1].id THEN NewTask(n)
                          ELSE agents[i].currentTask]_vars

\* the selected agent holds the task next to an untouched unavailable agent
C16_Witness ==
    /\ pc[1] = "awaitAssign"
    /\ Get(agents, agent[1].id).currentTask = NewTask(need[1])
    /\ Get(agents, agent[1].id).availability
    /\ \E i \in 1..Len(agents) : ~agents[i].availability /\ agents[i].currentTask = NoTask

\* C17: when the metrics update fails, handleCitizenNeed fails and undoes
\* nothing: the registry is as it was, the taskAssigned notification stays
\* sent, and exactly one metrics update was attempted.
C17_NoRollbackOnMetricsFailure ==
    [][\A c \in {1} :
          handleThrow(c) =>
              /\ result'[c] = "error"
              /\ pc'[c] = "done"
              /\ agents' = agents
              /\ trace'[c] = trace[c]
              /\ Cardinality({k \in 1..Len(trace'[c]) : trace'[c][k].kind = "emit"}) = 1
              /\ Cardinality({k \in 1..Len(trace'[c]) : trace'[c][k].kind = "metrics"}) = 1]_vars

\* the call failed and its agent still holds the task
C17_Witness ==
    /\ pc[1] = "done"
    /\ result[1] = "error"
    /\ Get(agents, agent[1].id).currentTask = NewTask(need[1])

UpdatedAgents == Agents({TRUE}, {NoTask, ExternalTask}, {PerfA})

\* C18: an agentAssigned or agentsHealthUpdated event for a registered
\* identifier replaces the whole entry, current task included, by the
\* delivered state; if that state is available and without a task the agent
\* passes the filter of the next call.
C18_EventReplacesCurrentTask ==
    [][/\ \A a \in RegistryAgents :
             (agentAssigned(a) /\ Has(agents, a.id)) =>
                 /\ Get(agents', a.id) = a
                 /\ (a.availability /\ a.currentTask = NoTask) =>
                       \E k \in 1..Len(availableAgents(agents')) :
                           availableAgents(agents')[k] = a
       /\ \A a \in UpdatedAgents :
             (agentsHealthUpdated(<<a>>) /\ Has(agents, a.id)) =>
                 /\ Get(agents', a.id) = a
                 /\ (a.availability /\ a.currentTask = NoTask) =>
                       \E k \in 1..Len(availableAgents(agents')) :
                           availableAgents(agents')[k] = a]_vars

\* the health listener ran last and the agent of a suspended invocation is
\* free again in the registry
C18_Witness ==
    /\ tracked = <<>>
    /\ pc[1] = "awaitAssign"
    /\ Get(agents, agent[1].id).currentTask = NoTask
    /\ Get(agents, agent[1].id).availability

RECURSIVE CollaboratorCalls(_)
\* the remote calls and telemetry of an enrolment, in the order they were made
CollaboratorCalls(t) ==
    IF t = <<>> THEN <<>>
    ELSE IF Head(t).kind \in {"embedding", "upsert", "telemetry"}
         THEN <<Head(t).kind>> \o CollaboratorCalls(Tail(t))
         ELSE CollaboratorCalls(Tail(t))

IsPrefix(p, q) == Len(p) <= Len(q) /\ \A i \in 1..Len(p) : p[i] = q[i]

\* C11: registerAgent calls the embedding provider, then the vector store,
\* then telemetry, each at most once and in that order; when the embedding
\* fails the call fails with only the embedding request made, when the
\* upsert fails it fails with no telemetry sent.
C11_EnrolmentStepsInOrder ==
    [][/\ \A e \in ProviderErrors :
             registerEmbeddingRejected(e) =>
                 /\ enrol'.result = "error"
                 /\ enrol'.pc = "done"
                 /\ CollaboratorCalls(enrol'.trace) = <<"embedding">>
       /\ \A e \in ProviderErrors :
             registerUpsertRejected(e) =>
                 /\ enrol'.result = "error"
                 /\ enrol'.pc = "done"
                 /\ CollaboratorCalls(enrol'.trace) = <<"embedding", "upsert">>
       /\ IsPrefix(CollaboratorCalls(enrol'.trace), <<"embedding", "upsert", "telemetry">>)
       /\ enrol'.result = "ok" =>
             CollaboratorCalls(enrol'.trace) = <<"embedding", "upsert", "telemetry">>]_vars

\* an enrolment failed at the embedding
C11_Witness ==
    /\ enrol.result = "error"
    /\ CollaboratorCalls(enrol.trace) = <<"embedding">>

\* C12 as stated: an enrolment whose embedding request failed fails with an
\* error of kind EnrollmentError.
C12_FailsWithEnrollmentError ==
    (enrol.result = "error" /\ CollaboratorCalls(enrol.trace) = <<"embedding">>) =>
        enrol.error = "EnrollmentError"

\* C12: when the embedding request fails, registerAgent fails with the very
\* error the provider raised; it is logged and neither wrapped nor replaced.
C12_FailsWithProviderError ==
    [][\A e \in ProviderErrors :
          registerEmbeddingRejected(e) =>
              /\ enrol'.result = "error"
              /\ enrol'.error = e
              /\ enrol'.trace = Append(enrol.trace,
                                       EnrolEffect("console.error", enrol.agent.id, e))]_vars

\* the caller received the provider's rate-limit error
C12_Witness ==
    /\ enrol.result = "error"
    /\ enrol.error = "RateLimitError"
    /\ CollaboratorCalls(enrol.trace) = <<"embedding">>

\* C15: no step of registerAgent, succeeding or failing, changes the
\* registry; a handleCitizenNeed call made after an enrolment whose agent no
\* agentAssigned event has entered does not select that agent.
C15_RegisterLeavesRegistry ==
    [][/\ \A a \in EnrolAgents : registerAgent(a) => agents' = agents
       /\ registerEmbeddingResolved => agents' = agents
       /\ registerUpsertResolved => agents' = agents
       /\ \A e \in ProviderErrors :
             (registerEmbeddingRejected(e) \/ registerUpsertRejected(e)) => agents' = agents
       /\ \A n \in EnrollmentNeeds :
             (/\ handleCitizenNeed(1, n)
              /\ enrol.result = "ok"
              /\ ~Has(agents, enrol.agent.id)) =>
                 /\ agent'[1].id # enrol.agent.id
                 /\ ~Has(agents', enrol.agent.id)]_vars

\* agent 2 is enrolled, only agent 1 is in the registry, and a call that
\* found agent 1 busy reported that no agent is available
C15_Witness ==
    /\ enrol.result = "ok"
    /\ enrol.agent.id = 2
    /\ Keys(agents) = {1}
    /\ agents[1].currentTask = ExternalTask
    /\ pc[1] = "done"
    /\ trace[1] = <<TrackEvent("no_available_agents", 0)>>

\* C13: every GET on the environmental-metrics route, whatever the district
\* identifier, the state of the service and the response before it, answers
\* 200 with airQuality 250, noiseLevel 60, crowdingLevel 68 and
\* greenSpaceUsage 78.
C13_FixedEnvironmentalMetrics ==
    [][\A id \in DistrictIds :
          GET(id) =>
              /\ response'.status = 200
              /\ response'.body = [airQuality |-> 250, noiseLevel |-> 60,
                                   crowdingLevel |-> 68, greenSpaceUsage |-> 78]]_vars

\* the empty identifier was answered while an agent held a task
C13_Witness ==
    /\ response.id = ""
    /\ response.status = 200
    /\ \E i \in 1..Len(agents) : agents[i].currentTask # NoTask

\* C20: no step removes an identifier from the registry; a step that adds
\* one is the agentAssigned listener adding the identifier of the agent it
\* delivers; and every entry is the one found under its own identifier (one
\* entry for each identifier).
C20_RegistryKeysOnlyGrow ==
    [][/\ Keys(agents) \subseteq Keys(agents')
       /\ Keys(agents') # Keys(agents) =>
             \E a \in LifecycleAgents :
                 /\ agentAssigned(a)
                 /\ Keys(agents') = Keys(agents) \cup {a.id}
       /\ \A i \in 1..Len(agents') :
             \A j \in 1..Len(agents') : agents'[i].id = agents'[j].id => i = j]_vars

\* both agents are registered, one was reported unavailable, and a call, an
\* enrolment and a getAgentTasks call have completed
C20_Witness ==
    /\ Keys(agents) = {1, 2}
    /\ tracked = <<>>
    /\ ~agents[1].availability
    /\ agents[2].currentTask # NoTask
    /\ pc[1] = "done"
    /\ enrol.result = "ok"
    /\ fetched # <<>>

Min(a, b) == IF a < b THEN a ELSE b

\* what C19 says of the calls made since the latest registry event
RunInOrder(r, m) ==
    LET N == Len(r.eligible)
        position(a) == CHOOSE i \in 1..N : r.eligible[i].id = a.id
    IN /\ Len(r.assigned) = Min(N, r.calls)
       /\ \A k \in 1..Len(r.assigned) :
             \E i \in 1..N : r.eligible[i].id = r.assigned[k].id
       /\ \A k \in 1..Len(r.assigned) : \A l \in 1..Len(r.assigned) :
             k < l =>
                 /\ r.assigned[k].id # r.assigned[l].id
                 /\ r.assigned[k].performance.responseTime * 4
                      + r.assigned[k].performance.resolutionRate * 4
                      + r.assigned[k].performance.efficiency * 2
                    >= r.assigned[l].performance.responseTime * 4
                         + r.assigned[l].performance.resolutionRate * 4
                         + r.assigned[l].performance.efficiency * 2
                 /\ (r.assigned[k].performance.responseTime * 4
                       + r.assigned[k].performance.resolutionRate * 4
                       + r.assigned[k].performance.efficiency * 2
                     = r.assigned[l].performance.responseTime * 4
                         + r.assigned[l].performance.resolutionRate * 4
                         + r.assigned[l].performance.efficiency * 2) =>
                        position(r.assigned[k]) < position(r.assigned[l])
       /\ Cardinality({i \in 1..N : Get(m, r.eligible[i].id).currentTask # NoTask})
             = Min(N, r.calls)

\* C19: in a run of handleCitizenNeed calls with no registry event between
\* them, begun with N eligible agents, the first N calls assign distinct
\* agents in non-increasing order of score, equal scores in registry order;
\* every later call reports no_available_agents and assigns nothing; and
\* min(N, calls) of those agents hold a task.
C19_RunExhaustsEligibleInScoreOrder ==
    [][/\ RunInOrder(run', agents')
       /\ \A c \in {1}, n \in RunNeeds :
             (handleCitizenNeed(c, n) /\ run.calls >= Len(run.eligible)) =>
                 /\ trace'[c] = <<TrackEvent("no_available_agents", 0)>>
                 /\ agents' = agents]_vars

\* two eligible agents, the better one entered second, and a third call that
\* found nobody
C19_Witness ==
    /\ run.calls = 3
    /\ Len(run.eligible) = 2
    /\ Len(run.assigned) = 2
    /\ run.assigned[1].id = run.eligible[2].id
    /\ pc[1] = "done"
    /\ trace[1] = <<TrackEvent("no_available_agents", 0)>>

====
